---- MODULE Spec2Model ----
(***************************************************************************)
(* A model of rust-fundot: the Object value model (object.rs), its         *)
(* tokenizer and structural parser, and the evaluator (evaluator.rs).      *)
(*                                                                         *)
(* Every Object is one record [k, n, s, c]: k the variant, n the numeric   *)
(* payload, s the text payload (a sequence of characters), c the children. *)
(* A text is a sequence of one-character strings.  A Map's children are its*)
(* entries flattened, <<key1, value1, key2, value2, ...>>, in insertion    *)
(* order.  i64 and f64 are scaled down: i64 is IntBits wide, f64 keeps     *)
(* MantBits significant bits and is counted in thousandths.                *)
(***************************************************************************)
EXTENDS Integers, Sequences, FiniteSets, TLC

VARIABLES
    pc,            \* where the run is
    random_state,  \* how the RandomState of this process spreads the tags
    lhs, rhs,      \* SpecEq: the two operands
    eq_lr, eq_rl,  \* SpecEq: lhs == rhs, rhs == lhs
    text,          \* SpecRead: the &str given to from_str
    chars,         \* SpecRead: what the Chars iterator has left
    s,             \* SpecRead: the accumulation buffer
    expr,          \* the atoms
    result,        \* the Result of parse_expr
    form,          \* SpecEval: the Object given to eval
    head,          \* SpecEval: eval_list's obj, the evaluated first element
    iter,          \* SpecEval: what eval_list's iterator has left
    after_eval,    \* SpecEval: the call form eval_list builds
    value,         \* SpecEval: what eval returned
    stdin,         \* SpecRepl: the lines not read yet
    stdout,        \* SpecRepl: what has been written, one text per write
    input          \* SpecRepl: main's input, the line of this turn

eqVars == <<lhs, rhs, eq_lr, eq_rl>>
readVars == <<text, chars, s>>
parseVars == <<expr, result>>
evalVars == <<form, head, iter, after_eval, value>>
replVars == <<stdin, stdout, input>>
vars == <<pc, random_state, lhs, rhs, eq_lr, eq_rl, text, chars, s, expr, result,
          form, head, iter, after_eval, value, stdin, stdout, input>>

\* ------------------------------------------------------------ bounds
IntBits == 5
MantBits == 3
MaxLen == 2
MaxText == 4
MaxAtoms == 4
MaxPairs == 3
MaxLines == 2

RECURSIVE Pow2(_)
Pow2(e) == IF e = 0 THEN 1 ELSE 2 * Pow2(e - 1)

I64Min == 0 - Pow2(IntBits - 1)
I64Max == Pow2(IntBits - 1) - 1
I64 == I64Min..I64Max

\* ------------------------------------------------------------ Object
Obj(kind, num, str, children) == [k |-> kind, n |-> num, s |-> str, c |-> children]

Null == Obj("Null", 0, <<>>, <<>>)
Bool(x) == Obj("Bool", IF x THEN 1 ELSE 0, <<>>, <<>>)
Integer(x) == Obj("Integer", x, <<>>, <<>>)
Float(x) == Obj("Float", x, <<>>, <<>>)
NaN == Obj("Float", 0, <<"NaN">>, <<>>)
String(x) == Obj("String", 0, x, <<>>)
Symbol(x) == Obj("Symbol", 0, x, <<>>)
List(x) == Obj("List", 0, <<>>, x)
Vector(x) == Obj("Vector", 0, <<>>, x)
Map(x) == Obj("Map", 0, <<>>, x)
Other(x) == Obj("Other", 0, x, <<>>)

\* ------------------------------------------------------------ f64
Abs(x) == IF x < 0 THEN 0 - x ELSE x

RECURSIVE Ulp(_)
\* the spacing of the f64 values around the whole number x
Ulp(x) == IF x < Pow2(MantBits) THEN 1 ELSE 2 * Ulp(x \div 2)

\* x thousandths rounded to the nearest f64, ties to even
RoundF64(x) ==
    LET u == 1000 * Ulp(Abs(x) \div 1000)
        q == Abs(x) \div u
        r == Abs(x) % u
        m == IF 2 * r < u THEN q
             ELSE IF 2 * r > u THEN q + 1
             ELSE IF q % 2 = 0 THEN q ELSE q + 1
    IN IF Abs(x) < 1000 * Pow2(MantBits) THEN x
       ELSE IF x < 0 THEN 0 - (m * u) ELSE m * u

\* `x as f64`
as_f64(x) == RoundF64(1000 * x)

\* f64 ==: a NaN equals nothing
f64_eq(x, y) == x.s = <<>> /\ y.s = <<>> /\ x.n = y.n

\* ------------------------------------------------------------ Hash
\* what `hash` feeds the Hasher
hash(obj) ==
    IF obj.k = "Integer" THEN [t |-> "i64", n |-> obj.n, s |-> <<>>]
    ELSE IF obj.k \in {"String", "Symbol"} THEN [t |-> "str", n |-> 0, s |-> obj.s]
    ELSE [t |-> "", n |-> 0, s |-> <<>>]

\* The tag HashMap compares before it calls eq.  The keys of RandomState are
\* drawn per process: equal hash inputs always give equal tags, different
\* inputs give different tags ("distinct") or the same one ("colliding").
h2(obj) == IF random_state = "colliding" THEN [t |-> "", n |-> 0, s |-> <<>>] ELSE hash(obj)

\* ------------------------------------------------------------ PartialEq
RECURSIVE eq(_, _), seq_eq(_, _), map_find(_, _, _), map_eq(_, _)

\* HashMap's search: the first entry whose tag matches and whose key the
\* probe equals (the probe is the left operand of ==); 0 when there is none
map_find(m, key, i) ==
    IF i > Len(m) THEN 0
    ELSE IF h2(m[i]) = h2(key) /\ eq(key, m[i]) THEN i
    ELSE map_find(m, key, i + 2)

\* HashMap::get: Some(value) as <<value>>, None as <<>>
map_get(m, key) ==
    LET i == map_find(m, key, 1) IN IF i = 0 THEN <<>> ELSE <<m[i + 1]>>

\* HashMap::insert: an equal key keeps its place and takes the new value
map_insert(m, key, v) ==
    LET i == map_find(m, key, 1)
    IN IF i = 0 THEN m \o <<key, v>> ELSE [m EXCEPT ![i + 1] = v]

\* LinkedList == and Vec ==
seq_eq(x, y) == Len(x) = Len(y) /\ \A i \in 1..Len(x) : eq(x[i], y[i])

\* HashMap ==
map_eq(x, y) ==
    /\ Len(x) = Len(y)
    /\ \A i \in {j \in 1..Len(x) : j % 2 = 1} :
          LET j == map_find(y, x[i], 1) IN j # 0 /\ eq(x[i + 1], y[j + 1])

eq(self, other) ==
    IF self.k = "Null" /\ other.k = "Null" THEN TRUE
    ELSE IF self.k = "Null" /\ other.k = "Bool" THEN other.n = 0
    ELSE IF self.k = "Bool" /\ other.k = "Bool" THEN self.n = other.n
    ELSE IF self.k = "Integer" /\ other.k = "Integer" THEN self.n = other.n
    ELSE IF self.k = "Integer" /\ other.k = "Float" THEN f64_eq(Float(as_f64(self.n)), other)
    ELSE IF self.k = "Float" /\ other.k = "Integer" THEN f64_eq(self, Float(as_f64(other.n)))
    ELSE IF self.k = "Float" /\ other.k = "Float" THEN f64_eq(self, other)
    ELSE IF self.k = "String" /\ other.k = "String" THEN self.s = other.s
    ELSE IF self.k = "Symbol" /\ other.k = "Symbol" THEN self.s = other.s
    ELSE IF self.k = "List" /\ other.k = "List" THEN seq_eq(self.c, other.c)
    ELSE IF self.k = "Vector" /\ other.k = "Vector" THEN seq_eq(self.c, other.c)
    ELSE IF self.k = "Map" /\ other.k = "Map" THEN map_eq(self.c, other.c)
    ELSE FALSE

\* ------------------------------------------------------------ tokenizer
Digits == <<"0", "1", "2", "3", "4", "5", "6", "7", "8", "9">>

\* char::is_numeric, on the characters of the model'str texts
is_numeric(ch) == \E d \in 1..10 : Digits[d] = ch

DigitVal(ch) == (CHOOSE d \in 1..10 : Digits[d] = ch) - 1

\* char::is_whitespace
is_whitespace(ch) == ch \in {" ", "\n", "\t", "\r"}

\* char::is_ascii_punctuation (the backquote, which no text of the model
\* holds, is left out)
is_ascii_punctuation(ch) ==
    ch \in {"!", "\"", "#", "$", "%", "&", "'", "(", ")", "*", "+", ",", "-", ".",
            "/", ":", ";", "<", "=", ">", "?", "@", "[", "\\", "]", "^", "_",
            "{", "|", "}", "~"}

RECURSIVE DecVal(_)
\* the number a run of digits writes
DecVal(ds) == IF ds = <<>> THEN 0 ELSE 10 * DecVal(SubSeq(ds, 1, Len(ds) - 1)) + DigitVal(ds[Len(ds)])

AllDigits(ds) == \A i \in 1..Len(ds) : is_numeric(ds[i])

\* str::parse::<i64> of a buffer that starts with a digit: Ok(n) as <<n>>
parse_i64(str) ==
    IF str # <<>> /\ AllDigits(str) /\ DecVal(str) <= I64Max THEN <<DecVal(str)>> ELSE <<>>

\* the first place of "." in str, 0 when there is none
DotAt(str) == IF \E i \in 1..Len(str) : str[i] = "."
            THEN CHOOSE i \in 1..Len(str) : str[i] = "." /\ \A j \in 1..(i - 1) : str[j] # "."
            ELSE 0

\* str::parse::<f64> of a buffer that starts with a digit and holds no
\* exponent: digits, then optionally "." and digits; Ok(x) as <<x>>, x in
\* thousandths, the decimals past the third cut
parse_f64(str) ==
    LET d == DotAt(str)
        whole == IF d = 0 THEN str ELSE SubSeq(str, 1, d - 1)
        frac == IF d = 0 THEN <<>> ELSE SubSeq(str, d + 1, Len(str))
        frac3 == SubSeq(frac \o <<"0", "0", "0">>, 1, 3)
    IN IF whole # <<>> /\ AllDigits(whole) /\ AllDigits(frac)
       THEN <<RoundF64(1000 * DecVal(whole) + DecVal(frac3))>>
       ELSE <<>>

\* Every Result below is a record with ok; a failure is ParseObjectError.
atomize_expr_push(atoms, str) ==
    IF str = <<>> THEN [ok |-> TRUE, expr |-> atoms, s |-> str]
    ELSE IF is_numeric(str[1])
    THEN IF parse_i64(str) # <<>>
         THEN [ok |-> TRUE, expr |-> Append(atoms, Integer(parse_i64(str)[1])), s |-> <<>>]
         ELSE IF parse_f64(str) # <<>>
         THEN [ok |-> TRUE, expr |-> Append(atoms, Float(parse_f64(str)[1])), s |-> <<>>]
         ELSE [ok |-> FALSE, expr |-> atoms, s |-> str]
    ELSE IF str = <<"n", "u", "l", "l">>
    THEN [ok |-> TRUE, expr |-> Append(atoms, Null), s |-> <<>>]
    ELSE IF str = <<"t", "r", "u", "e">>
    THEN [ok |-> TRUE, expr |-> Append(atoms, Bool(TRUE)), s |-> <<>>]
    ELSE IF str = <<"f", "a", "l", "str", "e">>
    THEN [ok |-> TRUE, expr |-> Append(atoms, Bool(FALSE)), s |-> <<>>]
    ELSE [ok |-> TRUE, expr |-> Append(atoms, Symbol(str)), s |-> <<>>]

\* Ok(char) as <<char>>, Err as <<>>; the escape is the first of cs
atomize_expr_escape_char(cs) ==
    IF cs = <<>> THEN <<>>
    ELSE IF cs[1] = "\"" THEN <<"\"">>
    ELSE IF cs[1] = "\\" THEN <<"\\">>
    ELSE IF cs[1] = "n" THEN <<"\n">>
    ELSE IF cs[1] = "r" THEN <<"\r">>
    ELSE IF cs[1] = "t" THEN <<"\t">>
    ELSE <<>>

RECURSIVE atomize_expr_chars_to_str(_, _)
\* the text after an opening quote, str the String built so far
atomize_expr_chars_to_str(cs, str) ==
    IF cs = <<>> THEN [ok |-> FALSE, obj |-> Null, chars |-> cs]
    ELSE IF cs[1] = "\\"
    THEN IF atomize_expr_escape_char(Tail(cs)) = <<>>
         THEN [ok |-> FALSE, obj |-> Null, chars |-> cs]
         ELSE atomize_expr_chars_to_str(Tail(Tail(cs)),
                                        str \o atomize_expr_escape_char(Tail(cs)))
    ELSE IF cs[1] = "\"" THEN [ok |-> TRUE, obj |-> String(str), chars |-> Tail(cs)]
    ELSE atomize_expr_chars_to_str(Tail(cs), Append(str, cs[1]))

\* ------------------------------------------------------------ parser
Sym(ch) == Symbol(<<ch>>)

\* LinkedList::pop_front, the popped element dropped: nothing to pop is no error
pop_front(atoms) == IF atoms = <<>> THEN <<>> ELSE Tail(atoms)

RECURSIVE parse_list(_, _), parse_mut_expr(_), parse_vector(_, _), parse_map(_, _)

\* parse_list with Ok(list) where the atoms run out
parse_list_ok_at_end(atoms, is_delimiter) ==
    LET RECURSIVE loop(_, _)
        loop(e, list) ==
            IF e = <<>> THEN [ok |-> TRUE, list |-> list, expr |-> e]
            ELSE IF \E d \in is_delimiter : eq(e[1], d)
            THEN [ok |-> TRUE, list |-> list, expr |-> e]
            ELSE LET r == parse_mut_expr(e)
                 IN IF r.ok THEN loop(r.expr, Append(list, r.obj))
                    ELSE [ok |-> FALSE, list |-> list, expr |-> r.expr]
    IN loop(atoms, <<>>)

\* is_delimiter is the set of Symbols the closure compares the front with
parse_list(atoms, is_delimiter) ==
    LET RECURSIVE loop(_, _)
        loop(e, list) ==
            IF e = <<>> THEN [ok |-> FALSE, list |-> list, expr |-> e]
            ELSE IF \E d \in is_delimiter : eq(e[1], d)
            THEN [ok |-> TRUE, list |-> list, expr |-> e]
            ELSE LET r == parse_mut_expr(e)
                 IN IF r.ok THEN loop(r.expr, Append(list, r.obj))
                    ELSE [ok |-> FALSE, list |-> list, expr |-> r.expr]
    IN loop(atoms, <<>>)

\* parse_vector that pops every "," it meets before an element
parse_vector_skip_commas(atoms, vector) ==
    LET RECURSIVE skip(_)
        skip(e) == IF e # <<>> /\ eq(e[1], Sym(",")) THEN skip(Tail(e)) ELSE e
    IN IF atoms = <<>> THEN [ok |-> FALSE, obj |-> Null, expr |-> atoms]
       ELSE IF eq(atoms[1], Sym("]")) THEN [ok |-> TRUE, obj |-> Vector(vector), expr |-> Tail(atoms)]
       ELSE LET r == parse_list(skip(atoms), {Sym(","), Sym("]")})
            IN IF ~r.ok \/ Len(r.list) # 1 THEN [ok |-> FALSE, obj |-> Null, expr |-> r.expr]
               ELSE parse_vector(r.expr, Append(vector, r.list[1]))

\* the loop of the "[" form, after the "[" is popped
parse_vector(atoms, vector) ==
    IF atoms = <<>> THEN [ok |-> FALSE, obj |-> Null, expr |-> atoms]
    ELSE IF eq(atoms[1], Sym("]")) THEN [ok |-> TRUE, obj |-> Vector(vector), expr |-> Tail(atoms)]
    ELSE LET e == IF eq(atoms[1], Sym(",")) THEN Tail(atoms) ELSE atoms
             r == parse_list(e, {Sym(","), Sym("]")})
         IN IF ~r.ok \/ Len(r.list) # 1 THEN [ok |-> FALSE, obj |-> Null, expr |-> r.expr]
            ELSE parse_vector(r.expr, Append(vector, r.list[1]))

\* the loop of the "{" form, after the "{" is popped
parse_map(atoms, map) ==
    IF atoms = <<>> THEN [ok |-> FALSE, obj |-> Null, expr |-> atoms]
    ELSE IF eq(atoms[1], Sym("}")) THEN [ok |-> TRUE, obj |-> Map(map), expr |-> Tail(atoms)]
    ELSE LET e == IF eq(atoms[1], Sym(",")) THEN Tail(atoms) ELSE atoms
             r == parse_list(e, {Sym(","), Sym("}")})
         IN IF ~r.ok \/ Len(r.list) # 3 THEN [ok |-> FALSE, obj |-> Null, expr |-> r.expr]
            ELSE IF ~eq(r.list[2], Sym(":")) THEN [ok |-> FALSE, obj |-> Null, expr |-> r.expr]
            ELSE parse_map(r.expr, map_insert(map, r.list[1], r.list[3]))

parse_mut_expr(atoms) ==
    IF atoms = <<>> THEN [ok |-> FALSE, obj |-> Null, expr |-> atoms]
    ELSE IF eq(atoms[1], Sym("("))
    THEN LET r == parse_list(Tail(atoms), {Sym(")")})
         IN IF r.ok THEN [ok |-> TRUE, obj |-> List(r.list), expr |-> pop_front(r.expr)]
            ELSE [ok |-> FALSE, obj |-> Null, expr |-> r.expr]
    ELSE IF eq(atoms[1], Sym("[")) THEN parse_vector(Tail(atoms), <<>>)
    ELSE IF eq(atoms[1], Sym("{")) THEN parse_map(Tail(atoms), <<>>)
    ELSE [ok |-> TRUE, obj |-> atoms[1], expr |-> Tail(atoms)]

\* parse_expr works on a clone: what is left of the atoms is dropped
parse_expr(atoms) == parse_mut_expr(atoms)

\* ------------------------------------------------------------ evaluator
Name_get == <<"g", "e", "t">>
Name_quit == <<"q", "u", "i", "t">>

\* the index taken by its magnitude
as_usize_abs(index) == Abs(index)

\* `index as usize`, usize as wide as i64 (a 64-bit target): the cast keeps
\* an index >= 0 and wraps a negative one past every length
as_usize(index) == index % Pow2(IntBits)

\* Vec::get: Some(value) as <<value>>, None as <<>>
vec_get(vector, index) == IF index < Len(vector) THEN <<vector[index + 1]>> ELSE <<>>

\* the primitive get, on the call form obj
get(obj) ==
    IF obj.k # "List" \/ Len(obj.c) < 3 THEN Null
    ELSE IF obj.c[2].k = "Vector"
    THEN (IF obj.c[3].k = "Integer" /\ vec_get(obj.c[2].c, as_usize(obj.c[3].n)) # <<>>
          THEN vec_get(obj.c[2].c, as_usize(obj.c[3].n))[1]
          ELSE Null)
    ELSE IF obj.c[2].k = "Map"
    THEN (IF map_get(obj.c[2].c, obj.c[3]) # <<>> THEN map_get(obj.c[2].c, obj.c[3])[1] ELSE Null)
    ELSE Null

\* Evaluator::new: the global Map, get bound before quit
global ==
    Map(map_insert(map_insert(<<>>, Symbol(Name_get), Other(Name_get)),
                   Symbol(Name_quit), Other(Name_quit)))

\* What a call gives: exit is TRUE when the process has exited (quit) and
\* nothing was returned.
Returned(obj) == [exit |-> FALSE, obj |-> obj]
Exited == [exit |-> TRUE, obj |-> Null]

\* other.downcast_ref::<PrimitiveFunction>() is Some
is_primitive(obj) == obj.k = "Other" /\ obj.s \in {Name_get, Name_quit}

\* primitive_function(&Object::List(after_eval))
call(primitive_function, after) ==
    IF primitive_function.s = Name_quit THEN Exited ELSE Returned(get(List(after)))

RECURSIVE eval(_), eval_list(_)

\* the element evaluated before it is pushed
push_arg_evaluated(after, arg) == Append(after, eval(arg).obj)

\* after_eval.push_back(obj.clone()), of an element after the first
push_arg(after, arg) == Append(after, arg)

\* eval_symbol with Null for a Symbol the global table does not bind
eval_symbol_unbound_null(string) ==
    LET symbol == Symbol(string)
    IN IF global.k = "Map" /\ map_get(global.c, symbol) # <<>>
       THEN map_get(global.c, symbol)[1]
       ELSE Null

eval_symbol(string) ==
    LET symbol == Symbol(string)
    IN IF global.k = "Map" /\ map_get(global.c, symbol) # <<>>
       THEN map_get(global.c, symbol)[1]
       ELSE symbol

RECURSIVE push_args(_, _)
push_args(after, rest) ==
    IF rest = <<>> THEN after ELSE push_args(push_arg(after, rest[1]), Tail(rest))

eval_list(list) ==
    IF list = <<>> THEN Returned(Null)
    ELSE LET r == eval(list[1])
         IN IF r.exit THEN Exited
            ELSE IF is_primitive(r.obj) THEN call(r.obj, push_args(<<r.obj>>, Tail(list)))
            ELSE Returned(Null)

eval(obj) ==
    IF obj.k = "Symbol" THEN Returned(eval_symbol(obj.s))
    ELSE IF obj.k = "List" THEN eval_list(obj.c)
    ELSE Returned(obj)

\* ------------------------------------------------------------ Display
RECURSIVE fmt_u64(_)
fmt_u64(x) == IF x < 10 THEN <<Digits[x + 1]>> ELSE Append(fmt_u64(x \div 10), Digits[(x % 10) + 1])

\* "{}" of an i64
fmt_i64(x) == IF x < 0 THEN <<"-">> \o fmt_u64(0 - x) ELSE fmt_u64(x)

\* "{}" of an f64 counted in thousandths
fmt_f64(x) ==
    LET whole == fmt_u64(Abs(x) \div 1000)
        f == Abs(x) % 1000
        frac == IF f = 0 THEN <<>>
                ELSE IF f % 100 = 0 THEN <<".", Digits[(f \div 100) + 1]>>
                ELSE IF f % 10 = 0 THEN <<".", Digits[(f \div 100) + 1], Digits[((f \div 10) % 10) + 1]>>
                ELSE <<".", Digits[(f \div 100) + 1], Digits[((f \div 10) % 10) + 1], Digits[(f % 10) + 1]>>
    IN (IF x < 0 THEN <<"-">> ELSE <<>>) \o whole \o frac

RECURSIVE fmt_str(_)
\* "{:?}" of a String, without its quotes
fmt_str(x) ==
    IF x = <<>> THEN <<>>
    ELSE (IF x[1] = "\"" THEN <<"\\", "\"">>
          ELSE IF x[1] = "\\" THEN <<"\\", "\\">>
          ELSE IF x[1] = "\n" THEN <<"\\", "n">>
          ELSE IF x[1] = "\r" THEN <<"\\", "r">>
          ELSE IF x[1] = "\t" THEN <<"\\", "t">>
          ELSE <<x[1]>>) \o fmt_str(Tail(x))

RECURSIVE fmt(_), fmt_join(_, _, _)
\* the children from the i-th on, each followed by sep
fmt_join(c, i, sep) == IF i > Len(c) THEN <<>> ELSE fmt(c[i]) \o sep \o fmt_join(c, i + 1, sep)

RECURSIVE fmt_pairs(_, _)
fmt_pairs(c, i) ==
    IF i > Len(c) THEN <<>>
    ELSE fmt(c[i]) \o <<":", " ">> \o fmt(c[i + 1]) \o <<",", " ">> \o fmt_pairs(c, i + 2)

DropLast(x, n) == SubSeq(x, 1, Len(x) - n)

\* Display::fmt; a Map is written in the order of its entries
fmt(obj) ==
    IF obj.k = "Null" THEN <<"n", "u", "l", "l">>
    ELSE IF obj.k = "Bool" THEN (IF obj.n = 1 THEN <<"t", "r", "u", "e">> ELSE <<"f", "a", "l", "str", "e">>)
    ELSE IF obj.k = "Integer" THEN fmt_i64(obj.n)
    ELSE IF obj.k = "Float" THEN (IF obj.s = <<>> THEN fmt_f64(obj.n) ELSE <<"N", "a", "N">>)
    ELSE IF obj.k = "String" THEN <<"\"">> \o fmt_str(obj.s) \o <<"\"">>
    ELSE IF obj.k = "Symbol" THEN obj.s
    ELSE IF obj.k = "List"
    THEN (IF obj.c = <<>> THEN <<"(", ")">>
          ELSE <<"(">> \o DropLast(fmt_join(obj.c, 1, <<" ">>), 1) \o <<")">>)
    ELSE IF obj.k = "Vector"
    THEN (IF obj.c = <<>> THEN <<"[", "]">>
          ELSE <<"[">> \o DropLast(fmt_join(obj.c, 1, <<",", " ">>), 2) \o <<"]">>)
    ELSE IF obj.k = "Map"
    THEN (IF obj.c = <<>> THEN <<"{", "}">>
          ELSE <<"{">> \o DropLast(fmt_pairs(obj.c, 1), 2) \o <<"}">>)
    ELSE <<"<", "A", "n", "y", ">">>

\* ------------------------------------------------------------ inputs
RandomStates == {"distinct", "colliding"}

\* the scalar Objects the comparisons are run on
Scalars ==
    {Null, Bool(TRUE), Bool(FALSE), NaN, String(<<"a">>), Symbol(<<"a">>), Other(<<"g", "e", "t">>)}
    \cup {Integer(i) : i \in {I64Min, -1, 0, 1, I64Max - 2, I64Max}}
    \cup {Float(f) : f \in {-1000, 0, 1000, 1500, 1000 * (I64Max - 3), 1000 * (I64Max + 1)}}

Keys == {Null, Bool(FALSE), Integer(1), Float(1000), String(<<"a">>)}

SeqsOf(S, n) == UNION {[1..m -> S] : m \in 0..n}

Collections ==
    {List(x) : x \in SeqsOf(Keys, MaxLen - 1)}
    \cup {Vector(x) : x \in SeqsOf(Keys, MaxLen - 1)}
    \cup {Map(<<key, Integer(1)>>) : key \in Keys}
    \cup {Map(<<>>)}

Objects == Scalars \cup Collections

NoResult == [ok |-> FALSE, obj |-> Null]

ReplIdle == stdin = <<>> /\ stdout = <<>> /\ input = <<>>

EvalIdle == form = Null /\ head = Null /\ iter = <<>> /\ after_eval = <<>> /\ value = Null

\* ------------------------------------------------------------ SpecEq
InitEq ==
    /\ pc = "eq"
    /\ random_state \in RandomStates
    /\ ReplIdle
    /\ lhs \in Objects
    /\ rhs \in Objects
    /\ eq_lr = FALSE
    /\ eq_rl = FALSE
    /\ text = <<>> /\ chars = <<>> /\ s = <<>>
    /\ expr = <<>>
    /\ result = NoResult
    /\ EvalIdle

\* lhs == rhs and rhs == lhs
Compare ==
    /\ pc = "eq"
    /\ eq_lr' = eq(lhs, rhs)
    /\ eq_rl' = eq(rhs, lhs)
    /\ pc' = "compared"
    /\ UNCHANGED <<replVars, random_state, lhs, rhs, readVars, expr, result, evalVars>>

NextEq == Compare

SpecEq == InitEq /\ [][NextEq]_vars

\* ------------------------------------------------------------ SpecRead
\* the characters the texts are written in
Alphabet == {"1", "9", ".", "-", " ", "a", "\"", "\\", "("}

Texts ==
    SeqsOf(Alphabet, MaxText)
    \cup {fmt(Integer(i)) : i \in I64}
    \cup {Append(fmt(Integer(i)), "\n") : i \in I64}

EqIdle == lhs = Null /\ rhs = Null /\ eq_lr = FALSE /\ eq_rl = FALSE

\* from_str(text), before atomize_expr reads its first character
InitRead ==
    /\ pc = "scan"
    /\ random_state \in RandomStates
    /\ ReplIdle
    /\ EqIdle
    /\ text \in Texts
    /\ chars = text
    /\ s = <<>>
    /\ expr = <<>>
    /\ result = NoResult
    /\ EvalIdle

\* c == '"'
ScanQuote ==
    /\ pc = "scan" /\ chars # <<>>
    /\ chars[1] = "\""
    /\ LET p == atomize_expr_push(expr, s)
           q == atomize_expr_chars_to_str(Tail(chars), <<>>)
       IN IF ~p.ok THEN pc' = "err" /\ chars' = Tail(chars) /\ UNCHANGED <<replVars, s, expr>>
          ELSE IF ~q.ok THEN pc' = "err" /\ chars' = <<>> /\ s' = p.s /\ expr' = p.expr
          ELSE pc' = "scan" /\ chars' = q.chars /\ s' = p.s /\ expr' = Append(p.expr, q.obj)
    /\ UNCHANGED <<replVars, random_state, eqVars, text, result, evalVars>>

\* c.is_whitespace()
ScanWhitespace ==
    /\ pc = "scan" /\ chars # <<>>
    /\ chars[1] # "\"" /\ is_whitespace(chars[1])
    /\ LET p == atomize_expr_push(expr, s)
       IN IF ~p.ok THEN pc' = "err" /\ UNCHANGED <<replVars, s, expr>>
          ELSE pc' = "scan" /\ s' = p.s /\ expr' = p.expr
    /\ chars' = Tail(chars)
    /\ UNCHANGED <<replVars, random_state, eqVars, text, result, evalVars>>

\* c == '.' && s.chars().next().unwrap().is_numeric(): the unwrap of an
\* empty buffer's first character panics
ScanDot ==
    /\ pc = "scan" /\ chars # <<>>
    /\ chars[1] = "."
    /\ s # <<>> => is_numeric(s[1])
    /\ IF s = <<>> THEN pc' = "panic" /\ s' = s ELSE pc' = "scan" /\ s' = Append(s, ".")
    /\ chars' = Tail(chars)
    /\ UNCHANGED <<replVars, random_state, eqVars, text, expr, result, evalVars>>

\* c.is_ascii_punctuation() && c != '_'
ScanPunct ==
    /\ pc = "scan" /\ chars # <<>>
    /\ chars[1] # "\"" /\ ~is_whitespace(chars[1])
    /\ chars[1] = "." => (s # <<>> /\ ~is_numeric(s[1]))
    /\ is_ascii_punctuation(chars[1]) /\ chars[1] # "_"
    /\ LET p == atomize_expr_push(expr, s)
       IN IF ~p.ok THEN pc' = "err" /\ UNCHANGED <<replVars, s, expr>>
          ELSE pc' = "scan" /\ s' = p.s /\ expr' = Append(p.expr, Symbol(<<chars[1]>>))
    /\ chars' = Tail(chars)
    /\ UNCHANGED <<replVars, random_state, eqVars, text, result, evalVars>>

\* every other character joins the buffer
ScanOther ==
    /\ pc = "scan" /\ chars # <<>>
    /\ chars[1] # "\"" /\ ~is_whitespace(chars[1]) /\ chars[1] # "."
    /\ ~(is_ascii_punctuation(chars[1]) /\ chars[1] # "_")
    /\ s' = Append(s, chars[1])
    /\ chars' = Tail(chars)
    /\ UNCHANGED <<replVars, pc, random_state, eqVars, text, expr, result, evalVars>>

\* chars.next() is None: Ok(expr), the buffer is dropped as it is
ScanEnd ==
    /\ pc = "scan" /\ chars = <<>>
    /\ pc' = "atomized"
    /\ UNCHANGED <<replVars, random_state, eqVars, readVars, expr, result, evalVars>>

\* parse_expr(&expr)
ParseExpr ==
    /\ pc = "atomized"
    /\ LET r == parse_expr(expr)
       IN /\ result' = [ok |-> r.ok, obj |-> r.obj]
          /\ pc' = IF r.ok THEN "parsed" ELSE "err"
    /\ UNCHANGED <<replVars, random_state, eqVars, readVars, expr, evalVars>>

NextRead ==
    \/ ScanQuote
    \/ ScanWhitespace
    \/ ScanDot
    \/ ScanPunct
    \/ ScanOther
    \/ ScanEnd
    \/ ParseExpr

SpecRead == InitRead /\ [][NextRead]_vars

\* ------------------------------------------------------------ SpecParse
\* the atoms the bracket words are written in
BracketAtoms ==
    {Sym("("), Sym(")"), Sym("["), Sym("]"), Sym("{"), Sym("}"), Sym(","), Sym(":"), Integer(1)}

RECURSIVE PairsText(_, _)
\* the atoms of the pairs keys[p] : p, from the p-th on, commas between them
PairsText(keys, p) ==
    IF p > Len(keys) THEN <<>>
    ELSE <<keys[p], Sym(":"), Integer(p)>>
         \o (IF p < Len(keys) THEN <<Sym(",")>> ELSE <<>>) \o PairsText(keys, p + 1)

\* the atoms of { keys[1]: 1, keys[2]: 2, ... }
MapLiteral(keys) == <<Sym("{")>> \o PairsText(keys, 1) \o <<Sym("}")>>

MapLiterals == {MapLiteral(keys) : keys \in SeqsOf(Keys, MaxPairs)}

\* the atoms one element of a vector literal is written in
ElementTexts ==
    {<<key>> : key \in Keys}
    \cup {<<Sym("("), Integer(1), Sym(")")>>, <<Sym("["), Sym(","), Integer(1), Sym("]")>>}

RECURSIVE ElementsText(_, _)
ElementsText(elems, i) ==
    IF i > Len(elems) THEN <<>>
    ELSE elems[i] \o (IF i < Len(elems) THEN <<Sym(",")>> ELSE <<>>) \o ElementsText(elems, i + 1)

\* the atoms of [ elems[1], elems[2], ... ]
VectorLiteral(elems) == <<Sym("[")>> \o ElementsText(elems, 1) \o <<Sym("]")>>

VectorLiterals == {VectorLiteral(elems) : elems \in SeqsOf(ElementTexts, MaxLen)}

\* parse_expr(&expr), on the atoms some text has been cut into
InitParse ==
    /\ pc = "atomized"
    /\ random_state \in RandomStates
    /\ ReplIdle
    /\ EqIdle
    /\ text = <<>> /\ chars = <<>> /\ s = <<>>
    /\ expr \in SeqsOf(BracketAtoms, MaxAtoms) \cup VectorLiterals \cup MapLiterals
    /\ result = NoResult
    /\ EvalIdle

NextParse == ParseExpr

SpecParse == InitParse /\ [][NextParse]_vars

\* ------------------------------------------------------------ SpecEval
RECURSIVE MapOf(_, _)
\* the Map the pairs keys[p] : p, up to the p-th, are inserted into
MapOf(keys, p) == IF p = 0 THEN <<>> ELSE map_insert(MapOf(keys, p - 1), keys[p], Integer(p))

Name_foo == <<"f", "o", "o">>

\* what the first element of a form is
Heads ==
    {Symbol(Name_get), Symbol(Name_quit), Symbol(Name_foo), Other(Name_get), Integer(1), List(<<>>),
     List(<<Symbol(Name_quit)>>),
     List(<<Symbol(Name_get), Vector(<<Symbol(Name_get)>>), Integer(0)>>)}

Elements == {Integer(7), Symbol(Name_get), String(<<"a">>)}

Vectors == {Vector(x) : x \in SeqsOf(Elements, MaxLen)}

Indices == {Integer(i) : i \in I64} \cup {Float(1000), Null, Symbol(Name_get)}

Forms ==
    Heads \cup Vectors
    \cup {List(<<h>>) : h \in Heads}
    \cup {List(<<h, v>>) : h \in Heads, v \in Vectors}
    \cup {List(<<h, v, x>>) : h \in Heads, v \in Vectors, x \in Indices}
    \cup {List(<<h, v, x, x>>) : h \in {Symbol(Name_get)}, v \in Vectors, x \in Indices}
    \cup {List(<<h, c, x>>) : h \in {Symbol(Name_get)}, c \in {Null, List(<<Integer(7)>>)}, x \in Indices}

\* eval(&form), before its match
InitEval ==
    /\ pc = "eval"
    /\ random_state \in RandomStates
    /\ ReplIdle
    /\ EqIdle
    /\ text = <<>> /\ chars = <<>> /\ s = <<>>
    /\ expr = <<>>
    /\ result = NoResult
    /\ form \in Forms
               \cup {List(<<Symbol(Name_get), Map(MapOf(keys, Len(keys))), key>>) :
                        keys \in SeqsOf(Keys, MaxPairs), key \in Keys}
    /\ head = Null
    /\ iter = <<>>
    /\ after_eval = <<>>
    /\ value = Null

\* Object::Symbol(s) => self.eval_symbol(s)
EvalSymbol ==
    /\ pc = "eval" /\ form.k = "Symbol"
    /\ value' = eval_symbol(form.s)
    /\ pc' = "done"
    /\ UNCHANGED <<replVars, random_state, eqVars, readVars, parseVars, form, head, iter, after_eval>>

\* _ => obj.clone()
EvalSelf ==
    /\ pc = "eval" /\ form.k \notin {"Symbol", "List"}
    /\ value' = form
    /\ pc' = "done"
    /\ UNCHANGED <<replVars, random_state, eqVars, readVars, parseVars, form, head, iter, after_eval>>

\* eval_list: list.is_empty()
EvalEmptyList ==
    /\ pc = "eval" /\ form.k = "List" /\ form.c = <<>>
    /\ value' = Null
    /\ pc' = "done"
    /\ UNCHANGED <<replVars, random_state, eqVars, readVars, parseVars, form, head, iter, after_eval>>

\* eval_list: let obj = self.eval(iter.next().unwrap())
EvalHead ==
    /\ pc = "eval" /\ form.k = "List" /\ form.c # <<>>
    /\ LET r == eval(form.c[1])
       IN IF r.exit THEN pc' = "exit" /\ head' = head
          ELSE pc' = "head" /\ head' = r.obj
    /\ iter' = Tail(form.c)
    /\ UNCHANGED <<replVars, random_state, eqVars, readVars, parseVars, form, after_eval, value>>

\* eval_list: the evaluated head is no primitive function
NotCallable ==
    /\ pc = "head" /\ ~is_primitive(head)
    /\ value' = Null
    /\ pc' = "done"
    /\ UNCHANGED <<replVars, random_state, eqVars, readVars, parseVars, form, head, iter, after_eval>>

\* eval_list: after_eval.push_back(obj)
BeginCall ==
    /\ pc = "head" /\ is_primitive(head)
    /\ after_eval' = <<head>>
    /\ pc' = "args"
    /\ UNCHANGED <<replVars, random_state, eqVars, readVars, parseVars, form, head, iter, value>>

\* eval_list: for obj in iter { after_eval.push_back(obj.clone()) }
PushArg ==
    /\ pc = "args" /\ iter # <<>>
    /\ after_eval' = push_arg(after_eval, iter[1])
    /\ iter' = Tail(iter)
    /\ UNCHANGED <<replVars, pc, random_state, eqVars, readVars, parseVars, form, head, value>>

\* eval_list: return primitive_function(&Object::List(after_eval))
Call ==
    /\ pc = "args" /\ iter = <<>>
    /\ LET r == call(head, after_eval)
       IN IF r.exit THEN pc' = "exit" /\ value' = value
          ELSE pc' = "done" /\ value' = r.obj
    /\ UNCHANGED <<replVars, random_state, eqVars, readVars, parseVars, form, head, iter, after_eval>>

NextEval ==
    \/ EvalSymbol
    \/ EvalSelf
    \/ EvalEmptyList
    \/ EvalHead
    \/ NotCallable
    \/ BeginCall
    \/ PushArg
    \/ Call

SpecEval == InitEval /\ [][NextEval]_vars

\* ------------------------------------------------------------ SpecRepl
\* main.rs holds its own copy of the tokenizer and the parser, the same
\* statements as object.rs; the lines of the model hold no Map.
RECURSIVE atomize_expr(_, _, _)
\* atomize_expr from the characters cs on, str the buffer, atoms the atoms so
\* far: ok with the atoms, a ParseObjectError, or the panic of unwrap
atomize_expr(cs, str, atoms) ==
    IF cs = <<>> THEN [ok |-> TRUE, panic |-> FALSE, expr |-> atoms]
    ELSE LET c == cs[1]
             p == atomize_expr_push(atoms, str)
             failed == [ok |-> FALSE, panic |-> FALSE, expr |-> atoms]
         IN IF c = "\""
            THEN LET q == atomize_expr_chars_to_str(Tail(cs), <<>>)
                 IN IF ~p.ok \/ ~q.ok THEN failed
                    ELSE atomize_expr(q.chars, p.s, Append(p.expr, q.obj))
            ELSE IF is_whitespace(c)
            THEN (IF ~p.ok THEN failed ELSE atomize_expr(Tail(cs), p.s, p.expr))
            ELSE IF c = "." /\ str = <<>> THEN [ok |-> FALSE, panic |-> TRUE, expr |-> atoms]
            ELSE IF c = "." /\ is_numeric(str[1]) THEN atomize_expr(Tail(cs), Append(str, c), atoms)
            ELSE IF is_ascii_punctuation(c) /\ c # "_"
            THEN (IF ~p.ok THEN failed
                  ELSE atomize_expr(Tail(cs), p.s, Append(p.expr, Symbol(<<c>>))))
            ELSE atomize_expr(Tail(cs), Append(str, c), atoms)

\* input.parse::<Object>()
from_str(line) ==
    LET a == atomize_expr(line, <<>>, <<>>)
        r == parse_expr(a.expr)
    IN IF ~a.ok THEN [ok |-> FALSE, obj |-> Null] ELSE [ok |-> r.ok, obj |-> r.obj]

Line_quit == <<"(", "q", "u", "i", "t", ")", "\n">>

\* the lines standard input may hold
Lines ==
    {Line_quit,
     <<"1", "\n">>,
     <<"f", "o", "o", "\n">>,
     <<"(", "g", "e", "t", " ", "[", "1", "]", " ", "0", ")", "\n">>,
     <<"(", "1", "\n">>,
     <<"1", ".", "5", " ", "\n">>}

PromptText == <<">", ">", ">", " ">>

\* main, before the first turn of its loop
InitRepl ==
    /\ pc = "loop"
    /\ random_state \in RandomStates
    /\ EqIdle
    /\ EvalIdle
    /\ text = <<>> /\ chars = <<>> /\ s = <<>>
    /\ expr = <<>>
    /\ result = NoResult
    /\ stdin \in SeqsOf(Lines, MaxLines)
    /\ stdout = <<>>
    /\ input = <<>>

\* let mut input = String::new(); print!(">>> "); flush
Prompt ==
    /\ pc = "loop"
    /\ input' = <<>>
    /\ stdout' = Append(stdout, PromptText)
    /\ pc' = "read"
    /\ UNCHANGED <<random_state, eqVars, readVars, parseVars, evalVars, stdin>>

\* io::stdin().read_line(&mut input): at the end of standard input it is
\* Ok(0) and input stays empty
ReadLine ==
    /\ pc = "read"
    /\ IF stdin = <<>> THEN input' = input /\ stdin' = stdin
       ELSE input' = input \o Head(stdin) /\ stdin' = Tail(stdin)
    /\ pc' = "parse"
    /\ UNCHANGED <<random_state, eqVars, readVars, parseVars, evalVars, stdout>>

\* input.parse::<Object>().expect(..): a failure to parse panics
ParseLine ==
    /\ pc = "parse"
    /\ result' = from_str(input)
    /\ pc' = IF from_str(input).ok THEN "print" ELSE "panic"
    /\ UNCHANGED <<random_state, eqVars, readVars, expr, evalVars, replVars>>

\* println!("{}", ..) of the parsed Object, then the next turn
PrintLine ==
    /\ pc = "print"
    /\ stdout' = Append(stdout, Append(fmt(result.obj), "\n"))
    /\ pc' = "loop"
    /\ UNCHANGED <<random_state, eqVars, readVars, parseVars, evalVars, stdin, input>>

NextRepl ==
    \/ Prompt
    \/ ReadLine
    \/ ParseLine
    \/ PrintLine

SpecRepl == InitRepl /\ [][NextRepl]_vars

\* ------------------------------------------------------------ properties
\* C1: value equality is symmetric: a == b exactly when b == a
C1_EqSymmetric == pc = "compared" => (eq_lr = eq_rl)

\* the keys a Map stores, in the order of its entries
StoredKeys(m) == [i \in 1..(Len(m) \div 2) |-> m[2 * i - 1]]
StoredValues(m) == [i \in 1..(Len(m) \div 2) |-> m[2 * i]]

\* the number of pairs of a literal { k1: 1, k2: 2, ... } written by MapLiteral
PairCount(atoms) == Len(atoms) \div 4
KeyOfPair(atoms, p) == atoms[4 * p - 2]
ValueOfPair(atoms, p) == atoms[4 * p]

SameKey(x, y) == eq(x, y) \/ eq(y, x)

\* C2: the Map parsed from a { ... } literal stores no two equal keys, and
\* for every pair of the literal the value stored under its key is the value
\* of the last pair of the literal with an equal key
C2_MapKeysUnique ==
    (pc = "parsed" /\ expr \in MapLiterals) =>
        LET m == result.obj.c
            keys == StoredKeys(m)
            values == StoredValues(m)
        IN /\ \A i, j \in 1..Len(keys) : i # j => ~SameKey(keys[i], keys[j])
           /\ \A p \in 1..PairCount(expr) :
                LET last == CHOOSE q \in p..PairCount(expr) :
                                /\ SameKey(KeyOfPair(expr, q), KeyOfPair(expr, p))
                                /\ \A q2 \in (q + 1)..PairCount(expr) :
                                      ~SameKey(KeyOfPair(expr, q2), KeyOfPair(expr, p))
                IN \E i \in 1..Len(keys) :
                      SameKey(keys[i], KeyOfPair(expr, p)) /\ values[i] = ValueOfPair(expr, last)

\* eval has returned the value of a call of get on the call form after_eval
GetReturned == pc = "done" /\ form.k = "List" /\ head = Other(Name_get)

\* C3: get on (handle, Map m, key k, ...) returns the value bound to a stored
\* key equal to k when there is one, and Null only when there is none
C3_GetFindsEqualKey ==
    (GetReturned /\ Len(after_eval) >= 3 /\ after_eval[2].k = "Map") =>
        LET keys == StoredKeys(after_eval[2].c)
            values == StoredValues(after_eval[2].c)
            found == {i \in 1..Len(keys) : SameKey(keys[i], after_eval[3])}
        IN IF found = {} THEN value = Null ELSE \E i \in found : value = values[i]

\* C4: when atomize_expr returns its atoms, no token is left in the buffer:
\* the token that ends the text was classified and emitted
C4_TrailingTokenEmitted == pc = "atomized" => s = <<>>

\* C5: the decimal text of every i64 i, which is the Display text of
\* Integer(i), parses to Integer(i)
C5_IntegerRoundTrip ==
    \A i \in I64 :
        (text = fmt(Integer(i)) /\ pc \in {"parsed", "err", "panic"})
            => (pc = "parsed" /\ result = [ok |-> TRUE, obj |-> Integer(i)])

\* C6: tokenizing never aborts: every text gives atoms or a ParseObjectError
C6_TokenizingTotal == pc # "panic"

Openers == {Sym("("), Sym("["), Sym("{")}

Closer(a) == IF a = Sym("(") THEN Sym(")") ELSE IF a = Sym("[") THEN Sym("]") ELSE Sym("}")

RECURSIVE OpenAtEnd(_, _, _)
\* the closers still owed when the atoms from the i-th on are used up, or
\* <<>> once the first form is closed: an opener owes its closer, the closer
\* owed last pays it, every other atom is an element
OpenAtEnd(atoms, i, owed) ==
    IF i > Len(atoms) THEN owed
    ELSE IF atoms[i] \in Openers THEN OpenAtEnd(atoms, i + 1, <<Closer(atoms[i])>> \o owed)
    ELSE IF atoms[i] = owed[1]
    THEN (IF Len(owed) = 1 THEN <<>> ELSE OpenAtEnd(atoms, i + 1, Tail(owed)))
    ELSE OpenAtEnd(atoms, i + 1, owed)

\* the first form opens with a bracket and the atoms end before it is closed
Unclosed(atoms) ==
    /\ atoms # <<>>
    /\ atoms[1] \in Openers
    /\ OpenAtEnd(atoms, 2, <<Closer(atoms[1])>>) # <<>>

\* C7: atoms whose first form opens with "(", "[" or "{" and end before its
\* closing delimiter, at any depth, fail to parse
C7_UnclosedFails == (pc \in {"parsed", "err"} /\ Unclosed(expr)) => (pc = "err" /\ ~result.ok)

\* an unclosed form nested in an unclosed form has failed to parse
C7_Witness ==
    /\ pc = "err"
    /\ Unclosed(expr)
    /\ Len(expr) >= 3
    /\ expr[2] \in Openers
    /\ Len(OpenAtEnd(expr, 2, <<Closer(expr[1])>>)) >= 2

Insert(atoms, i, a) == SubSeq(atoms, 1, i - 1) \o <<a>> \o SubSeq(atoms, i, Len(atoms))

RECURSIVE ElementStarts(_, _)
\* the places in the literal where the elements of a "[" form start; atoms
\* is what follows place pos - 1
ElementStarts(atoms, pos) ==
    IF atoms = <<>> \/ atoms[1] = Sym("]") THEN {}
    ELSE IF atoms[1] = Sym(",") THEN ElementStarts(Tail(atoms), pos + 1)
    ELSE LET r == parse_mut_expr(atoms)
         IN IF ~r.ok THEN {}
            ELSE {pos} \cup ElementStarts(r.expr, pos + Len(atoms) - Len(r.expr))

\* a vector literal of the grammar: it parses to a Vector and no comma leads it
WellFormedVector(atoms) ==
    /\ pc = "parsed"
    /\ atoms[1] = Sym("[")
    /\ atoms[2] # Sym(",")
    /\ result.obj.k = "Vector"

SameVector(atoms) ==
    LET r == parse_expr(atoms) IN r.ok /\ r.obj = result.obj

\* C8 as stated: one more "," right before any element of a well-formed
\* vector literal still parses, to the same Vector
C8_ExtraCommaTolerated ==
    WellFormedVector(expr) =>
        \A i \in ElementStarts(Tail(expr), 2) : SameVector(Insert(expr, i, Sym(",")))

\* C8 as amended: one more "," right before the first element of a
\* well-formed vector literal still parses, to the same Vector; right before
\* a later element, next to the separating comma, it makes the parse fail
C8_LeadingCommaTolerated ==
    WellFormedVector(expr) =>
        \A i \in ElementStarts(Tail(expr), 2) :
            IF i = 2 THEN SameVector(Insert(expr, i, Sym(",")))
            ELSE ~parse_expr(Insert(expr, i, Sym(","))).ok

\* a vector literal of two elements or more has been parsed
C8_Witness ==
    /\ WellFormedVector(expr)
    /\ Cardinality(ElementStarts(Tail(expr), 2)) >= 2
    /\ Len(result.obj.c) >= 2

\* C9: eval of the empty List is Null; eval of a non-empty List evaluates
\* its first element only: a handle is called on the List of itself and the
\* other elements as they stand in the form, anything else gives Null
C9_EvalListCallForm ==
    (pc \in {"done", "exit"} /\ form.k = "List") =>
        IF form.c = <<>> THEN pc = "done" /\ value = Null /\ after_eval = <<>>
        ELSE LET h == eval(form.c[1])
             IN IF h.exit THEN pc = "exit" /\ after_eval = <<>>
                ELSE IF h.obj.k = "Other"
                THEN /\ after_eval = <<h.obj>> \o Tail(form.c)
                     /\ IF h.obj.s = Name_quit THEN pc = "exit"
                        ELSE pc = "done" /\ value = get(List(<<h.obj>> \o SubSeq(form.c, 2, Len(form.c))))
                ELSE pc = "done" /\ value = Null /\ after_eval = <<>>

\* get was called with an operand that eval would have changed: a Symbol
\* bound in the global table, inside the Vector and as the index
C9_Witness ==
    /\ GetReturned
    /\ Len(after_eval) >= 3
    /\ after_eval[3] = Symbol(Name_get)
    /\ after_eval[2].k = "Vector"
    /\ Len(after_eval[2].c) >= 1
    /\ after_eval[2].c[1] = Symbol(Name_get)

\* C10: get on (handle, Vector v, index x, ...) returns v[x] when x is an
\* Integer with 0 <= x < len(v), Null for every other Integer, the negative
\* ones too, and for an x that is no Integer; fewer than 3 elements give Null
C10_GetVectorIndex ==
    GetReturned =>
        IF Len(after_eval) < 3 THEN value = Null
        ELSE (after_eval[2].k = "Vector") =>
                LET v == after_eval[2].c
                    x == after_eval[3]
                IN IF x.k = "Integer" /\ 0 <= x.n /\ x.n < Len(v)
                   THEN value = v[x.n + 1]
                   ELSE value = Null

\* get returned Null for the least i64 as the index of a Vector that is not empty
C10_Witness ==
    /\ GetReturned
    /\ Len(after_eval) >= 3
    /\ after_eval[2].k = "Vector"
    /\ Len(after_eval[2].c) >= 1
    /\ after_eval[3] = Integer(I64Min)
    /\ value = Null

RECURSIVE CallsQuit(_)
\* the form is a List whose first element is quit, by name or by handle, or
\* is itself such a List: its evaluation invokes quit
CallsQuit(obj) ==
    /\ obj.k = "List"
    /\ obj.c # <<>>
    /\ \/ obj.c[1] \in {Symbol(Name_quit), Other(Name_quit)}
       \/ CallsQuit(obj.c[1])

\* the call form of get is malformed: too few elements, a container that is
\* neither Vector nor Map, or a Vector with an index that is no Integer
MalformedGet(after) ==
    \/ Len(after) < 3
    \/ after[2].k \notin {"Vector", "Map"}
    \/ after[2].k = "Vector" /\ after[3].k # "Integer"

\* C11: eval raises no error: unless the form invokes quit, eval goes on to
\* return a value; an unbound Symbol returns itself, get and quit return
\* their handles, and get on a malformed call form returns Null
C11_EvalRaisesNoErrors ==
    /\ pc \in {"eval", "head", "args", "done", "exit"}
    /\ (pc = "eval" /\ form.k = "List" /\ form.c # <<>>) => eval(form.c[1]).exit \in BOOLEAN
    /\ (pc = "eval" /\ ~(form.k = "List" /\ form.c # <<>>)) =>
          ENABLED (EvalSymbol \/ EvalSelf \/ EvalEmptyList)
    /\ pc = "head" => ENABLED (NotCallable \/ BeginCall)
    /\ pc = "args" => ENABLED (PushArg \/ Call)
    /\ pc = "exit" => CallsQuit(form)
    /\ pc = "done" => ~CallsQuit(form)
    /\ (pc = "done" /\ form.k = "Symbol") =>
          value = (IF form.s \in {Name_get, Name_quit} THEN Other(form.s) ELSE form)
    /\ (GetReturned /\ MalformedGet(after_eval)) => value = Null

\* an unbound Symbol has been evaluated, to itself
C11_Witness == pc = "done" /\ form = Symbol(Name_foo) /\ value = Symbol(Name_foo)

\* C12: once the line (quit) has been read the process terminates: from
\* then on nothing is written, neither the line's result nor a later prompt,
\* and no further turn of the loop starts
C12_QuitTerminates == [][input = Line_quit => (stdout' = stdout /\ pc' # "loop")]_vars

====
